---- MODULE Spec2Model ----
(***************************************************************************)
(* Verification model of the ttyd terminal transport of fulling-agent:     *)
(*   - the command execution engine  executeTtydCommand  (lib/util/        *)
(*     ttyd-exec), one instance per job;                                    *)
(*   - the lifecycle controller  useTerminal  (hooks/use-terminal.ts);      *)
(*   - the interactive client  XtermTerminal  (components/terminal/        *)
(*     xterm-terminal.tsx), also as rendered by TerminalDisplay;            *)
(*   - the tab list of TerminalContainer, the auto-start block of the       *)
(*     container's .bashrc, and the server action initializeRepo.           *)
(* Text is a sequence of one-character strings; "ESC" stands for \x1b.      *)
(***************************************************************************)
EXTENDS Integers, Sequences, FiniteSets, TLC

----------------------------------------------------------------------------
(* Bounds of the model *)

\* frames the server may deliver to one command job (free-server runs)
MaxFrames == 2
\* frames the server may deliver to each of two concurrent jobs
MaxFramesPair == 1
\* setTimeout calls of the lifecycle controller, and of the terminal client
MaxTimers == 3
\* WebSockets one terminal creates
MaxSockets == 3

\* key strokes and resizes of the user in one run of the terminal
MaxInputs == 2

\* the tabs a TerminalContainer may hold
MaxTabs == 4

\* the last value of the millisecond clock
MaxClock == 4
\* largest number of characters the shell session puts into one OUTPUT frame
\* (the marker line is followed by 4 more characters, so 5 or more cover every
\* buffer in which the marker can first match)
MaxChunk == 6

----------------------------------------------------------------------------
(* Text helpers: the JavaScript string operations the engine uses *)

Digits == {"0", "1", "2", "3", "4", "5", "6", "7", "8", "9"}

DigitVal(c) ==
  CASE c = "0" -> 0 [] c = "1" -> 1 [] c = "2" -> 2 [] c = "3" -> 3
    [] c = "4" -> 4 [] c = "5" -> 5 [] c = "6" -> 6 [] c = "7" -> 7
    [] c = "8" -> 8 [] c = "9" -> 9

Letters ==
  {"a","b","c","d","e","f","g","h","i","j","k","l","m","n","o","p","q","r",
   "s","t","u","v","w","x","y","z","A","B","C","D","E","F","G","H","I","J",
   "K","L","M","N","O","P","Q","R","S","T","U","V","W","X","Y","Z"}

\* characters String.prototype.trim removes
WhiteSpace == {" ", "\t", "\n", "\r"}

\* characters the regular expression atom . does not match
LineTerminators == {"\n", "\r"}

MinOf(S) == CHOOSE x \in S : \A y \in S : x <= y

\* pat occurs in s at (1-based) position i
OccursAt(s, pat, i) ==
  /\ i >= 1
  /\ i + Len(pat) - 1 <= Len(s)
  /\ \A k \in 1..Len(pat) : s[i + k - 1] = pat[k]

\* String.prototype.indexOf, 1-based; 0 stands for -1
IndexOf(s, pat) ==
  LET S == {i \in 1..(Len(s) + 1) : OccursAt(s, pat, i)}
  IN IF S = {} THEN 0 ELSE MinOf(S)

\* String.prototype.includes
Includes(s, pat) == IndexOf(s, pat) # 0

\* the text of s from position i on
Tail0(s, i) == SubSeq(s, i, Len(s))

\* parseInt(digits, 10) of a non-empty run of decimal digits
RECURSIVE parseInt(_)
parseInt(ds) ==
  IF ds = <<>> THEN 0
  ELSE 10 * parseInt(SubSeq(ds, 1, Len(ds) - 1)) + DigitVal(ds[Len(ds)])

\* String.prototype.split('\n')
RECURSIVE SplitLines(_)
SplitLines(s) ==
  LET i == IndexOf(s, <<"\n">>)
  IN IF i = 0 THEN <<s>>
     ELSE <<SubSeq(s, 1, i - 1)>> \o SplitLines(Tail0(s, i + 1))

\* Array.prototype.join('\n')
RECURSIVE JoinLines(_)
JoinLines(ls) ==
  IF ls = <<>> THEN <<>>
  ELSE IF Len(ls) = 1 THEN ls[1]
  ELSE ls[1] \o <<"\n">> \o JoinLines(Tail(ls))

\* Array.prototype.splice(i, 1)
RemoveAt(ls, i) ==
  [k \in 1..(Len(ls) - 1) |-> IF k < i THEN ls[k] ELSE ls[k + 1]]

\* String.prototype.trim
RECURSIVE TrimStart(_)
TrimStart(s) ==
  IF s # <<>> /\ s[1] \in WhiteSpace THEN TrimStart(Tail(s)) ELSE s

RECURSIVE TrimEnd(_)
TrimEnd(s) ==
  IF s # <<>> /\ s[Len(s)] \in WhiteSpace
  THEN TrimEnd(SubSeq(s, 1, Len(s) - 1)) ELSE s

trim(s) == TrimEnd(TrimStart(s))

\* end (exclusive) of the longest run of characters of set C starting at i
RECURSIVE RunEnd(_, _, _)
RunEnd(s, C, i) ==
  IF i <= Len(s) /\ s[i] \in C THEN RunEnd(s, C, i + 1) ELSE i

\* str.replace(/\x1b\[[0-9;]*[a-zA-Z]/g, '')
RECURSIVE stripAnsiFrom(_, _)
stripAnsiFrom(s, i) ==
  IF i > Len(s) THEN <<>>
  ELSE IF s[i] = "ESC" /\ i + 1 <= Len(s) /\ s[i + 1] = "["
    THEN LET e == RunEnd(s, Digits \cup {";"}, i + 2)
         IN IF e <= Len(s) /\ s[e] \in Letters
            THEN stripAnsiFrom(s, e + 1)
            ELSE <<s[i]>> \o stripAnsiFrom(s, i + 1)
    ELSE <<s[i]>> \o stripAnsiFrom(s, i + 1)

stripAnsiCodes(str) == stripAnsiFrom(str, 1)

----------------------------------------------------------------------------
(* Marker sentinel *)

END_MARKER_PREFIX ==
  <<"_","_","_","T","T","Y","D","_","E","X","E","C","_","E","N","D","_","_","_">>

MarkerTail == <<"_", "_", "_">>

\* `(${command}); echo "${END_MARKER_PREFIX}${markerId}:$?___"`
wrapCommand(command, markerId) ==
  <<"(">> \o command \o <<")", ";", " ", "e", "c", "h", "o", " ", "\"">>
    \o END_MARKER_PREFIX \o markerId \o <<":", "$", "?">> \o MarkerTail
    \o <<"\"">>

\* the pattern END_MARKER_PREFIX markerId ':' (\d+) '___' matches s at i
MarkerLooseAt(s, markerId, i) ==
  OccursAt(s, END_MARKER_PREFIX \o markerId \o <<":">>, i)

MarkerMatchesAt(s, markerId, i) ==
  LET d == i + Len(END_MARKER_PREFIX) + Len(markerId) + 1
      e == RunEnd(s, Digits, d)
  IN /\ OccursAt(s, END_MARKER_PREFIX \o markerId \o <<":">>, i)
     /\ e > d
     /\ OccursAt(s, MarkerTail, e)

\* the pattern without the exit-code digits: matches the echo of the typed line
MatchLoose(s, markerId) ==
  LET S == {i \in 1..Len(s) : MarkerLooseAt(s, markerId, i)}
  IN IF S = {} THEN [index |-> 0, code |-> <<>>]
     ELSE [index |-> MinOf(S), code |-> <<"0">>]

\* the pattern with any id in place of markerId
MatchAnyId(s, markerId) ==
  LET idAt(i) == SubSeq(s, i + Len(END_MARKER_PREFIX),
                        i + Len(END_MARKER_PREFIX) + Len(markerId) - 1)
      S == {i \in 1..(Len(s) - Len(END_MARKER_PREFIX) - Len(markerId)) :
              MarkerMatchesAt(s, idAt(i), i)}
  IN IF S = {} THEN [index |-> 0, code |-> <<>>]
     ELSE LET i == MinOf(S)
              d == i + Len(END_MARKER_PREFIX) + Len(markerId) + 1
          IN [index |-> i, code |-> SubSeq(s, d, RunEnd(s, Digits, d) - 1)]

\* outputBuffer.match(endMarkerPattern): index 0 stands for null
MatchEndMarker(s, markerId) ==
  LET S == {i \in 1..Len(s) : MarkerMatchesAt(s, markerId, i)}
  IN IF S = {} THEN [index |-> 0, code |-> <<>>]
     ELSE LET i == MinOf(S)
              d == i + Len(END_MARKER_PREFIX) + Len(markerId) + 1
          IN [index |-> i, code |-> SubSeq(s, d, RunEnd(s, Digits, d) - 1)]

\* lines.findIndex(line => line.includes(PREFIX) && line.includes(markerId)),
\* 1-based; 0 stands for -1
CommandLineIndex(lines, markerId) ==
  LET S == {k \in 1..Len(lines) :
              Includes(lines[k], END_MARKER_PREFIX) /\ Includes(lines[k], markerId)}
  IN IF S = {} THEN 0 ELSE MinOf(S)

\* cleanOutput.replace(new RegExp(`.*${PREFIX}${markerId}.*\n?`), '')
RemoveMarkerEcho(s, markerId) ==
  LET p == IndexOf(s, END_MARKER_PREFIX \o markerId)
  IN IF p = 0 THEN s
     ELSE LET T == {k \in 1..(p - 1) : s[k] \in LineTerminators}
              from == IF T = {} THEN 1 ELSE (CHOOSE k \in T : \A m \in T : m <= k) + 1
              stop == RunEnd(s, {c \in {s[k] : k \in 1..Len(s)} : c \notin LineTerminators}, p)
              to == IF stop <= Len(s) /\ s[stop] = "\n" THEN stop + 1 ELSE stop
          IN SubSeq(s, 1, from - 1) \o Tail0(s, to)

\* the output the engine returns for a buffer in which the marker matched at
\* position index (lines 455-475 of the engine)
CleanOutput(buffer, index, markerId, stripAnsi) ==
  LET cut == SubSeq(buffer, 1, index - 1)
      lines == SplitLines(cut)
      ci == CommandLineIndex(lines, markerId)
      kept == IF ci # 0 THEN RemoveAt(lines, ci) ELSE lines
      joined == RemoveMarkerEcho(JoinLines(kept), markerId)
  IN IF stripAnsi THEN trim(stripAnsiCodes(joined)) ELSE trim(joined)

----------------------------------------------------------------------------
(* State *)

VARIABLES
  job,      \* per command job: the closure state of one executeTtydCommand call
  opt,      \* per command job: its options and its markerId
  stream,   \* per command job: text the remote session has produced and not yet framed
  sess,     \* per command job: what the remote shell prints (banner, output, exit code)
  nframes,  \* per command job: number of frames a free server has sent
  h,        \* useTerminal: props, state and refs of the hook
  hTimers,  \* useTerminal: ids of the pending setTimeout callbacks of handleDisconnected
  hNext,    \* useTerminal: id the next setTimeout returns
  policyOff,\* history: disconnect() was called and no new endpoint, nor reconnect(), followed
  x,        \* XtermTerminal: closure state of the current run of the main effect
  socks,    \* XtermTerminal: the WebSockets created so far, by id
  xTimers,  \* XtermTerminal: ids of the pending reconnect setTimeout callbacks
  xNext,    \* XtermTerminal: id the next setTimeout returns
  disp,     \* TerminalDisplay: its props and its state
  page,     \* the xterm Terminal of the current effect run and document.title
  nUser,    \* number of key strokes and resizes the user has made
  nServer,  \* number of frames the server has sent to the terminal
  tabs,     \* TerminalContainer: the ids of its tabs, in order
  activeTabId, \* TerminalContainer: the id of the tab it displays
  now,      \* the millisecond clock Date.now() reads
  shell,    \* per shell of the container: the position of its startup in .bashrc
  flagFile, \* the container's file /tmp/.claude_started exists
  cli,      \* the shells of the container that have launched the assistant CLI
  repo      \* initializeRepo: the position of one call, and the project row it updates

\* the state outside the terminal transport: no command job, hook or terminal
\* reads or writes it
appVars == <<tabs, activeTabId, now, shell, flagFile, cli, repo>>

\* the state of the terminal transport
transportVars == <<job, opt, stream, sess, nframes, h, hTimers, hNext, policyOff,
                   x, socks, xTimers, xNext, disp, page, nUser, nServer>>

\* what a step of the hook or of a terminal leaves alone
jobVars == <<job, opt, stream, sess, nframes, appVars>>

hookVars == <<h, hTimers, hNext, policyOff>>

wireVars == <<disp, page, nUser, nServer>>

termVars == <<x, socks, xTimers, xNext, wireVars>>

\* what a step of a command job leaves alone
uiVars == <<hookVars, termVars, appVars>>

vars == <<jobVars, hookVars, termVars>>

Jobs == {1, 2}

----------------------------------------------------------------------------
(* Lifecycle controller: useTerminal *)

\* the value null of a url
Null == "null"

\* the value null of a timer handle or a socket reference
None == 0

\* the endpoints a caller may supply as ttydUrl
Endpoints == {"https://a/?authorization=dXNlcjpwdw", "https://b/?authorization=b3BzOnB3"}

Statuses == {"disconnected", "connecting", "connected", "error"}

\* useState initialisers and useRef initial values (lines 52-64)
HookInit(ttydUrl, autoReconnect) ==
  [ttydUrl |-> ttydUrl, autoReconnect |-> autoReconnect,
   status |-> IF ttydUrl # Null THEN "connecting" ELSE "disconnected",
   wsUrl |-> ttydUrl, prevTtydUrl |-> ttydUrl,
   reconnectTimeoutRef |-> None, shouldReconnectRef |-> TRUE]

\* the render-time reaction to a changed ttydUrl (lines 58-62)
HookRender(hk) ==
  IF hk.ttydUrl # hk.prevTtydUrl
  THEN [hk EXCEPT !.prevTtydUrl = hk.ttydUrl, !.wsUrl = hk.ttydUrl,
                  !.status = IF hk.ttydUrl # Null THEN "connecting" ELSE "disconnected"]
  ELSE hk

\* handleConnected (lines 67-71)
HandleConnected(hk) ==
  [hk EXCEPT !.status = "connected", !.shouldReconnectRef = hk.autoReconnect]

\* handleDisconnected schedules a reconnect (line 78)
WillSchedule(hk) == hk.shouldReconnectRef /\ hk.wsUrl # Null

\* handleDisconnected (lines 73-86); id is the handle setTimeout returns
HandleDisconnected(hk, id) ==
  IF WillSchedule(hk)
  THEN [hk EXCEPT !.status = "disconnected", !.reconnectTimeoutRef = id]
  ELSE [hk EXCEPT !.status = "disconnected"]

\* the callback of the reconnect timer (lines 80-84): the updater of setWsUrl
\* returns the url it is given
HookTimerCallback(hk) == [hk EXCEPT !.status = "connecting"]

\* reconnect (lines 89-102)
HookReconnect(hk) ==
  [hk EXCEPT !.reconnectTimeoutRef = None, !.shouldReconnectRef = TRUE,
             !.status = "connecting",
             !.wsUrl = IF hk.ttydUrl # Null THEN hk.ttydUrl ELSE hk.wsUrl]

\* disconnect (lines 105-115)
HookDisconnect(hk) ==
  [hk EXCEPT !.shouldReconnectRef = FALSE, !.reconnectTimeoutRef = None,
             !.status = "disconnected", !.wsUrl = Null]

\* clearTimeout(reconnectTimeoutRef.current) of reconnect and disconnect
ClearRef(hk, timers) ==
  IF hk.reconnectTimeoutRef # None THEN timers \ {hk.reconnectTimeoutRef} ELSE timers

----------------------------------------------------------------------------
(* WebSocket *)

\* WebSocket.close(): CONNECTING and OPEN sockets start closing
SocketAfterClose(st) ==
  IF st \in {"connecting", "open"} THEN "closing" ELSE st

----------------------------------------------------------------------------
(* Interactive client: the main effect of XtermTerminal *)

\* the closure of a run of the effect whose wsUrl is null or whose run is over
NoEffect ==
  [wsUrl |-> Null, phase |-> "none", isMounted |-> FALSE, socket |-> None,
   reconnectTimeout |-> None]

\* the closure of a fresh run of the effect (lines 316-325): init() is pending
NewEffect(wsUrl) ==
  IF wsUrl = Null THEN NoEffect
  ELSE [wsUrl |-> wsUrl, phase |-> "init", isMounted |-> TRUE, socket |-> None,
        reconnectTimeout |-> None]

\* the terminal after its component has unmounted: the cleanup has run and no
\* effect runs again
Unmounted == [NoEffect EXCEPT !.phase = "gone"]

\* an endpoint whose url has no authorization parameter
NoAuthEndpoint == "https://c/"

\* url.searchParams.get('authorization') || '' of parseUrl (lines 351-353)
Authorization(url) ==
  CASE url = "https://a/?authorization=dXNlcjpwdw" -> "dXNlcjpwdw"
    [] url = "https://b/?authorization=b3BzOnB3" -> "b3BzOnB3"
    [] OTHER -> ""

\* parseUrl returns null (lines 355-358)
ParseFails(url) == Authorization(url) = ""

\* the geometry of a new xterm Terminal, and the one fit() gives it
XTERM_COLS == 80

XTERM_ROWS == 24

Geometries == {<<XTERM_COLS, XTERM_ROWS>>, <<120, 40>>}

\* no Terminal exists; document.title is the title of the page. content is
\* what the server has had written to the terminal, notice the last notice the
\* client itself wrote to it
NoPage == [content |-> <<>>, notice |-> "", title |-> <<"p">>, cols |-> 0, rows |-> 0]

\* new Terminal(terminalOptions) (line 552); document.title stays
NewPage(pg) ==
  [pg EXCEPT !.content = <<>>, !.notice = "", !.cols = XTERM_COLS, !.rows = XTERM_ROWS]

\* terminal?.dispose() of the cleanup (line 701)
DisposePage(xc, pg) ==
  IF xc.phase = "ready"
  THEN [pg EXCEPT !.content = <<>>, !.notice = "", !.cols = 0, !.rows = 0]
  ELSE pg

\* the notice socket.onclose writes to the terminal (lines 524 and 529)
CloseNotice(code) == IF code # 1000 THEN "lost" ELSE "closed"

\* the first message of a socket of the terminal:
\* JSON.stringify({AuthToken, columns, rows}) (lines 472-477)
TermInitMsg(authorization, cols, rows) ==
  <<"{", "AuthToken", authorization, "columns", cols, "rows", rows, "}">>

\* socket?.send(...) of socket.onopen: the message goes to the socket the
\* closure variable holds
OnOpenSend(xc, ss, pg) ==
  IF xc.socket # None
  THEN [ss EXCEPT ![xc.socket].sent =
          Append(@, TermInitMsg(Authorization(xc.wsUrl), pg.cols, pg.rows))]
  ELSE ss

\* TerminalDisplay before it is part of a run
NoDisplay ==
  [ttydUrl |-> Null, running |-> FALSE, connectionStatus |-> "connecting",
   terminalReady |-> FALSE]

\* new WebSocket(wsFullUrl, ['tty']) with the four handlers set (lines 460-535)
NewSocket == [st |-> "connecting", attached |-> TRUE, sent |-> <<>>]

\* a socket after its close event: nothing is sent or delivered on it any more,
\* and what was sent on it is no longer kept
ClosedSocket == [st |-> "closed", attached |-> FALSE, sent |-> <<>>]

CleanupSocketsNoClose(xc, ss) ==
  IF xc.phase \notin {"none", "gone"} /\ xc.socket # None
  THEN [ss EXCEPT ![xc.socket].attached = FALSE]
  ELSE ss

\* the cleanup of the effect on the sockets (lines 684-692): handlers detached,
\* an OPEN or CONNECTING socket is closed
CleanupSockets(xc, ss) ==
  IF xc.phase \notin {"none", "gone"} /\ xc.socket # None
  THEN [ss EXCEPT ![xc.socket].st = SocketAfterClose(ss[xc.socket].st),
                  ![xc.socket].attached = FALSE]
  ELSE ss

CleanupTimersKeep(xc, timers) == timers

\* the cleanup of the effect on the timers (line 682)
CleanupTimers(xc, timers) ==
  IF xc.phase \notin {"none", "gone"} /\ xc.reconnectTimeout # None
  THEN timers \ {xc.reconnectTimeout} ELSE timers

\* connectWebSocket creates a socket (lines 449-460); every endpoint of the
\* model carries an authorization parameter
WillConnect(xc) == xc.phase = "ready" /\ xc.isMounted

\* the close code makes socket.onclose schedule a reconnect (line 523)
SchedulesReconnect(code) == code # 1000

\* the shells that may start in one container
Shells == {1, 2, 3}

\* no call of initializeRepo is part of the run
NoRepo == [pc |-> "none", githubRepo |-> Null, before |-> Null, success |-> FALSE]

\* TerminalContainer, the container and initializeRepo in runs that do not use
\* them
TabsIdle ==
  /\ tabs = <<>>
  /\ activeTabId = 0
  /\ now = 0

BootIdle ==
  /\ shell = [s \in Shells |-> "none"]
  /\ flagFile = FALSE
  /\ cli = {}

AppIdle ==
  /\ TabsIdle
  /\ BootIdle
  /\ repo = NoRepo

\* the terminal before its main effect has run
TermIdle ==
  /\ x = NoEffect
  /\ socks = <<>>
  /\ xTimers = {}
  /\ xNext = 1
  /\ disp = NoDisplay
  /\ page = NoPage
  /\ nUser = 0
  /\ nServer = 0

\* the hook and the terminal in runs that do not use them
UiIdle ==
  /\ h = HookInit(Null, TRUE)
  /\ hTimers = {}
  /\ hNext = 1
  /\ policyOff = FALSE
  /\ TermIdle
  /\ AppIdle

----------------------------------------------------------------------------
(* Command execution engine: executeTtydCommand *)

\* generateRandomString(8): two of the ids it can return
MarkerIdA == <<"k","3","x","Q","9","a","b","Z">>

MarkerIdB == <<"k","3","x","Q","9","a","b","Y">>

MarkerIds == {MarkerIdA, MarkerIdB}

Commands == {<<"l", "s">>, <<"e", "x", "i", "t", " ", "7">>}

DEFAULT_COLS == 120

DEFAULT_ROWS == 30

WS_OPEN == "open"

Pending ==
  [kind |-> "pending", output |-> <<>>, exitCode |-> 0, timedOut |-> FALSE,
   code |-> "none"]

\* a TtydExecResult handed to resolve()
Result(output, exitCode, timedOut) ==
  [kind |-> "resolved", output |-> output, exitCode |-> exitCode,
   timedOut |-> timedOut, code |-> "none"]

\* a TtydExecError handed to reject()
Failure(code) ==
  [kind |-> "rejected", output |-> <<>>, exitCode |-> 0, timedOut |-> FALSE,
   code |-> code]

TtydExecErrorCode ==
  {"CONNECTION_FAILED", "AUTHENTICATION_FAILED", "TIMEOUT", "WEBSOCKET_ERROR",
   "PROTOCOL_ERROR"}

\* what a caller of execCommand holds: no call, a call that awaits the job,
\* a thrown TtydExecError, a returned string
NoCall == [kind |-> "none", code |-> "none", output |-> <<>>]

Awaiting == [kind |-> "awaiting", code |-> "none", output |-> <<>>]

Thrown(code) == [kind |-> "thrown", code |-> code, output |-> <<>>]

Returned(output) == [kind |-> "returned", code |-> "none", output |-> output]

\* a job that is not part of the run
Unused ==
  [pc |-> "unused", isResolved |-> FALSE, timeoutHandle |-> FALSE,
   timerPending |-> FALSE, ws |-> FALSE, sock |-> "none",
   outputBuffer |-> <<>>, settlePending |-> FALSE, closeCalls |-> 0,
   settleCalls |-> 0, outcome |-> Pending, sent |-> <<>>, errored |-> FALSE,
   wrapped |-> NoCall]

StartedNoTimer == [Unused EXCEPT !.pc = "creating"]

\* the state right after the Promise executor has run: the timeout timer is
\* armed and createWebSocket() has been called but has not completed
Started ==
  [Unused EXCEPT !.pc = "creating", !.timeoutHandle = TRUE, !.timerPending = TRUE]

cleanup(jr) ==
  LET a == [jr EXCEPT !.timeoutHandle = FALSE,
                      !.timerPending = IF jr.timeoutHandle THEN FALSE
                                       ELSE jr.timerPending]
  IN IF a.ws
     THEN [a EXCEPT !.closeCalls = a.closeCalls + 1,
                    !.sock = SocketAfterClose(a.sock),
                    !.ws = FALSE]
     ELSE a

resolveWithUnguarded(jr, result) ==
  LET c == cleanup([jr EXCEPT !.isResolved = TRUE])
  IN [c EXCEPT !.settleCalls = c.settleCalls + 1,
               !.outcome = IF jr.outcome.kind = "pending" THEN result ELSE jr.outcome]

resolveWith(jr, result) ==
  IF jr.isResolved THEN jr
  ELSE LET c == cleanup([jr EXCEPT !.isResolved = TRUE])
       IN [c EXCEPT !.settleCalls = c.settleCalls + 1, !.outcome = result]

rejectWith(jr, error) ==
  IF jr.isResolved THEN jr
  ELSE LET c == cleanup([jr EXCEPT !.isResolved = TRUE])
       IN [c EXCEPT !.settleCalls = c.settleCalls + 1, !.outcome = error]

\* the result the timeout callback builds (lines 302-307)
TimeoutResultRaw(jr, o) == Result(jr.outputBuffer, -1, TRUE)

TimeoutResult(jr, o) ==
  Result(IF o.stripAnsi THEN stripAnsiCodes(jr.outputBuffer) ELSE jr.outputBuffer,
         -1, TRUE)

\* the option authorization was not given
Undefined == "undefined"

\* the first message of a socket: JSON.stringify({columns, rows, AuthToken}),
\* which leaves out a member whose value is undefined
InitMsg(cols, rows, authorization) ==
  IF authorization = Undefined
  THEN <<"{", "columns", cols, "rows", rows, "}">>
  ELSE <<"{", "columns", cols, "rows", rows, "AuthToken", authorization, "}">>

\* the authorization parameter of the url buildWsUrl returns (lines 183-185)
WsUrlAuthorization(authorization) ==
  IF authorization # Undefined /\ authorization # "" THEN authorization ELSE ""

\* the two INPUT frames of the settle-delay callback (lines 421-432)
CommandFrames(o) ==
  << <<"0">> \o wrapCommand(o.command, o.markerId), <<"0", "\r">> >>

\* ws.onOpen listener
OnOpen(jr, o) ==
  IF ~jr.ws THEN jr
  ELSE [jr EXCEPT !.sent = Append(jr.sent, InitMsg(DEFAULT_COLS, DEFAULT_ROWS, o.authorization)),
                  !.settlePending = TRUE]

\* the callback of setTimeout(..., 100) armed by the onOpen listener
OnSettle(jr, o) ==
  IF ~jr.ws \/ jr.sock # WS_OPEN THEN jr
  ELSE [jr EXCEPT !.sent = jr.sent \o CommandFrames(o)]

\* ws.onMessage listener
OnMessage(jr, o, frame) ==
  IF frame = <<>> THEN jr
  ELSE IF frame[1] = "0"
    THEN LET buf == jr.outputBuffer \o Tail(frame)
             m == MatchEndMarker(buf, o.markerId)
             a == [jr EXCEPT !.outputBuffer = buf]
         IN IF m.index # 0
            THEN resolveWith(a, Result(CleanOutput(buf, m.index, o.markerId, o.stripAnsi),
                                       parseInt(m.code), FALSE))
            ELSE a
    ELSE jr

\* ws.onError listener
OnError(jr) == rejectWith(jr, Failure("WEBSOCKET_ERROR"))

CloseErrorNoAuth(code, reason) == Failure("CONNECTION_FAILED")

\* the error the onClose listener builds from the close code and reason
CloseError(code, reason) ==
  IF code = 1008 \/ Includes(reason, <<"a", "u", "t", "h">>)
  THEN Failure("AUTHENTICATION_FAILED")
  ELSE Failure("CONNECTION_FAILED")

\* ws.onClose listener
OnClose(jr, code, reason) ==
  IF jr.isResolved THEN jr ELSE rejectWith(jr, CloseError(code, reason))

----------------------------------------------------------------------------
(* Events of a command job *)

\* the timeout timer fires
TimeoutFire(j) ==
  /\ job[j].timerPending
  /\ job' = [job EXCEPT ![j] =
       resolveWith([job[j] EXCEPT !.timerPending = FALSE], TimeoutResult(job[j], opt[j]))]
  /\ UNCHANGED <<opt, stream, sess, nframes, uiVars>>

\* createWebSocket() completes: the socket exists, ws is assigned and the
\* listeners are registered (the .then callback, lines 401-517)
CreateDone(j) ==
  /\ job[j].pc = "creating"
  /\ job' = [job EXCEPT ![j] = [job[j] EXCEPT !.pc = "created", !.ws = TRUE,
                                              !.sock = "connecting"]]
  /\ UNCHANGED <<opt, stream, sess, nframes, uiVars>>

\* createWebSocket() throws: the .catch callback (lines 518-528)
CreateFail(j) ==
  /\ job[j].pc = "creating"
  /\ job' = [job EXCEPT ![j] =
       rejectWith([job[j] EXCEPT !.pc = "failed"], Failure("CONNECTION_FAILED"))]
  /\ UNCHANGED <<opt, stream, sess, nframes, uiVars>>

\* the transport opens; the remote session starts printing
SocketOpen(j) ==
  /\ job[j].pc = "created"
  /\ job[j].sock = "connecting"
  /\ job' = [job EXCEPT ![j] = OnOpen([job[j] EXCEPT !.sock = "open"], opt[j])]
  /\ stream' = [stream EXCEPT ![j] = sess[j].pre]
  /\ UNCHANGED <<opt, sess, nframes, uiVars>>

\* what the remote shell prints once the typed line and Enter arrive: the echo
\* of the line, the output of the command, the marker line and a new prompt
ShellRun(o, s) ==
  wrapCommand(o.command, o.markerId) \o <<"\r", "\n">> \o s.out
    \o END_MARKER_PREFIX \o o.markerId \o <<":">> \o s.exit \o MarkerTail
    \o <<"\r", "\n", "$", " ">>

\* the settle delay elapses
SettleFire(j) ==
  /\ job[j].settlePending
  /\ LET n == OnSettle([job[j] EXCEPT !.settlePending = FALSE], opt[j])
     IN /\ job' = [job EXCEPT ![j] = n]
        /\ stream' = [stream EXCEPT ![j] =
             IF n.sent # job[j].sent THEN stream[j] \o ShellRun(opt[j], sess[j])
             ELSE stream[j]]
  /\ UNCHANGED <<opt, sess, nframes, uiVars>>

\* one message arrives on the socket
Deliver(j, frame) ==
  /\ job[j].pc = "created"
  /\ job[j].sock \in {"open", "closing"}
  /\ job' = [job EXCEPT ![j] = OnMessage(job[j], opt[j], frame)]
  /\ UNCHANGED <<opt, sess, uiVars>>

\* the transport reports an error
ErrorEvent(j) ==
  /\ job[j].pc = "created"
  /\ job[j].sock \in {"connecting", "open", "closing"}
  /\ ~job[j].errored
  /\ job' = [job EXCEPT ![j] = OnError([job[j] EXCEPT !.errored = TRUE])]
  /\ UNCHANGED <<opt, stream, sess, nframes, uiVars>>

\* the transport is closed (by the peer, by a failure, or after close())
CloseEvent(j, code, reason) ==
  /\ job[j].pc = "created"
  /\ job[j].sock \in {"connecting", "open", "closing"}
  /\ job' = [job EXCEPT ![j] = OnClose([job[j] EXCEPT !.sock = "closed"], code, reason)]
  /\ UNCHANGED <<opt, stream, sess, nframes, uiVars>>

----------------------------------------------------------------------------
(* Runs of one command job against a server that may send any frame *)

Out(text) == <<"0">> \o text

\* the marker line `___TTYD_EXEC_END___<markerId>:<exitCode>___`
MarkerLine(markerId, exit) ==
  END_MARKER_PREFIX \o markerId \o <<":">> \o exit \o MarkerTail

AnsiReset == <<"ESC", "[", "0", "m">>

\* the frames the server may send to a job with the given markerId: output
\* text, an ANSI sequence, the marker of the job, a zero-length message, a
\* window title
FrameKinds == {"text", "ansi", "marker", "empty", "title"}

FrameOf(kind, markerId) ==
  CASE kind = "text" -> Out(<<"a", "\n">>)
    [] kind = "ansi" -> Out(AnsiReset)
    [] kind = "marker" -> Out(MarkerLine(markerId, <<"0">>))
    [] kind = "empty" -> <<>>
    [] kind = "title" -> <<"1", "t">>

CloseCodes == {1000, 1006, 1008}

CloseReasons == {<<>>, <<"u", "n", "a", "u", "t", "h">>}

NoSession == [pre |-> <<>>, out |-> <<>>, exit |-> <<"0">>]

OptOf(markerId, command, stripAnsi) ==
  [markerId |-> markerId, command |-> command, stripAnsi |-> stripAnsi,
   authorization |-> "dXNlcjpwdw"]

InitJob ==
  /\ job = [j \in Jobs |-> IF j = 1 THEN Started ELSE Unused]
  /\ \E b \in BOOLEAN :
       opt = [j \in Jobs |-> OptOf(IF j = 1 THEN MarkerIdA ELSE MarkerIdB, <<"l", "s">>, b)]
  /\ stream = [j \in Jobs |-> <<>>]
  /\ sess = [j \in Jobs |-> NoSession]
  /\ nframes = [j \in Jobs |-> 0]
  /\ UiIdle

\* the server sends one frame of its choice
FreeFrame(j, kind) ==
  /\ nframes[j] < MaxFrames
  /\ Deliver(j, FrameOf(kind, opt[j].markerId))
  /\ nframes' = [nframes EXCEPT ![j] = nframes[j] + 1]
  /\ UNCHANGED stream

NextJob ==
  \/ \E j \in Jobs : TimeoutFire(j)
  \/ \E j \in Jobs : CreateDone(j)
  \/ \E j \in Jobs : CreateFail(j)
  \/ \E j \in Jobs : SocketOpen(j)
  \/ \E j \in Jobs : SettleFire(j)
  \/ \E j \in Jobs, kind \in FrameKinds : FreeFrame(j, kind)
  \/ \E j \in Jobs : ErrorEvent(j)
  \/ \E j \in Jobs, code \in CloseCodes, reason \in CloseReasons :
       CloseEvent(j, code, reason)

SpecJob == InitJob /\ [][NextJob]_vars

----------------------------------------------------------------------------
(* Properties of one command job *)

\* C1: no command job leaks a connection: once the job has settled, every
\* socket created for it has had close() called on it by the job; there is no
\* state in which the job is settled, socket creation has completed and the
\* socket is connecting or open without a close() call.
C1_NoLeakedSocket ==
  \A j \in Jobs :
    (job[j].isResolved /\ job[j].pc = "created" /\ job[j].sock \in {"connecting", "open"})
      => job[j].closeCalls > 0

C3_TypedRejection ==
  [][\A j \in Jobs :
       ~job[j].isResolved =>
         /\ ErrorEvent(j) => job'[j].outcome = Failure("WEBSOCKET_ERROR")
         /\ CreateFail(j) => job'[j].outcome = Failure("CONNECTION_FAILED")
         /\ \A code \in CloseCodes, reason \in CloseReasons :
              CloseEvent(j, code, reason) =>
                job'[j].outcome =
                  Failure(IF code = 1008 \/ reason = <<"u", "n", "a", "u", "t", "h">>
                          THEN "AUTHENTICATION_FAILED" ELSE "CONNECTION_FAILED")]_vars

\* a close event on an unsettled job was classified as an authentication failure
C3_Witness ==
  \E j \in Jobs :
    /\ job[j].outcome = Failure("AUTHENTICATION_FAILED")
    /\ job[j].sock = "closed"
    /\ job[j].settleCalls = 1

\* C4: a command job settles at most once: once settled, no later event
\* changes the delivered outcome, calls resolve/reject again or closes the
\* socket again.
C4_SettlesOnce ==
  [][\A j \in Jobs :
       /\ job'[j].settleCalls <= 1
       /\ job'[j].closeCalls <= 1
       /\ job[j].isResolved =>
            /\ job'[j].isResolved
            /\ job'[j].outcome = job[j].outcome
            /\ job'[j].settleCalls = job[j].settleCalls
            /\ job'[j].closeCalls = job[j].closeCalls]_vars

\* a job resolved by its marker later received a second marker frame, an
\* error event and the close event
C4_Witness ==
  \E j \in Jobs :
    /\ job[j].outcome.kind = "resolved"
    /\ ~job[j].outcome.timedOut
    /\ job[j].errored
    /\ job[j].sock = "closed"
    /\ MatchEndMarker(SubSeq(job[j].outputBuffer, 2, Len(job[j].outputBuffer)),
                      opt[j].markerId).index # 0

----------------------------------------------------------------------------
(* Runs of one command job against a remote shell session *)

\* what the session prints before the command is typed: only the prompt, or
\* the last line of the session handler's welcome banner and the prompt
PromptOnly == <<"$", " ">>

BannerAndPrompt == <<"H", "i", "!", "\r", "\n", "$", " ">>

\* what the command prints: a line, a coloured line
PlainLine == <<"o", "k", "\r", "\n">>

ColourLine == <<"ESC", "[", "3", "2", "m", "o", "k">> \o AnsiReset \o <<"\r", "\n">>

\* the remote sessions of the run: banner, output of the command, exit code
\* as the shell prints $?
Sessions ==
  { [pre |-> PromptOnly, out |-> PlainLine, exit |-> <<"0">>],
    [pre |-> PromptOnly, out |-> <<>>, exit |-> <<"1", "2">>],
    [pre |-> PromptOnly, out |-> ColourLine, exit |-> <<"0">>],
    [pre |-> BannerAndPrompt, out |-> PlainLine, exit |-> <<"1", "2">>] }

InitShell ==
  /\ job = [j \in Jobs |-> IF j = 1 THEN Started ELSE Unused]
  /\ \E b \in BOOLEAN, c \in Commands :
       opt = [j \in Jobs |-> OptOf(IF j = 1 THEN MarkerIdA ELSE MarkerIdB, c, b)]
  /\ stream = [j \in Jobs |-> <<>>]
  /\ \E s \in Sessions : sess = [j \in Jobs |-> IF j = 1 THEN s ELSE NoSession]
  /\ nframes = [j \in Jobs |-> 0]
  /\ UiIdle

\* the session's next k characters arrive as one OUTPUT frame
ShellOutput(j, k) ==
  /\ k <= Len(stream[j])
  /\ Deliver(j, Out(SubSeq(stream[j], 1, k)))
  /\ stream' = [stream EXCEPT ![j] = Tail0(stream[j], k + 1)]
  /\ UNCHANGED nframes

NextShell ==
  \/ \E j \in Jobs : TimeoutFire(j)
  \/ \E j \in Jobs : CreateDone(j)
  \/ \E j \in Jobs : SocketOpen(j)
  \/ \E j \in Jobs : SettleFire(j)
  \/ \E j \in Jobs, k \in 1..MaxChunk : ShellOutput(j, k)
  \/ \E j \in Jobs : CloseEvent(j, 1000, <<>>)

SpecShell == InitShell /\ [][NextShell]_vars

\* the output a round trip owes for what the command printed
ExpectedOutput(j) ==
  IF opt[j].stripAnsi THEN trim(stripAnsiCodes(sess[j].out)) ELSE trim(sess[j].out)

\* C5: round trip of a command: whatever the session printed before the
\* command was typed and however the stream is split into OUTPUT frames, a job
\* resolved by its marker has exitCode = E, timedOut = false and output = O
\* after trimming and optional ANSI stripping.
C5_RoundTrip ==
  \A j \in Jobs :
    (job[j].outcome.kind = "resolved" /\ ~job[j].outcome.timedOut)
      => /\ job[j].outcome.exitCode = parseInt(sess[j].exit)
         /\ job[j].outcome.output = ExpectedOutput(j)

\* C6: the echo of the typed line never counts as the result: a job is
\* resolved successfully only when its buffer holds the marker prefix, its
\* markerId, ':', digits and '___'; the echoed line (with '$?') does not
\* resolve it, and the returned output does not contain the echoed line.
C6_EchoIsNotResult ==
  \A j \in Jobs :
    (job[j].outcome.kind = "resolved" /\ ~job[j].outcome.timedOut)
      => /\ \E i \in 1..Len(job[j].outputBuffer) :
              \E n \in 1..3 :
                LET d == i + Len(END_MARKER_PREFIX) + Len(opt[j].markerId) + 1
                IN /\ OccursAt(job[j].outputBuffer,
                               END_MARKER_PREFIX \o opt[j].markerId \o <<":">>, i)
                   /\ \A k \in d..(d + n - 1) :
                        k <= Len(job[j].outputBuffer) /\ job[j].outputBuffer[k] \in Digits
                   /\ OccursAt(job[j].outputBuffer, <<"_", "_", "_">>, d + n)
         /\ ~Includes(job[j].outcome.output, <<"e", "c", "h", "o">>)
         /\ ~Includes(job[j].outcome.output, END_MARKER_PREFIX)
         /\ ~Includes(job[j].outcome.output, <<"$", "?">>)

\* the whole echo of the typed line had arrived and the job was still
\* unsettled; later the marker resolved it
C6_Witness ==
  \E j \in Jobs :
    /\ job[j].outcome.kind = "resolved"
    /\ ~job[j].outcome.timedOut
    /\ Includes(job[j].outputBuffer, wrapCommand(opt[j].command, opt[j].markerId))
    /\ job[j].outcome.output # <<>>

----------------------------------------------------------------------------
(* Runs of two concurrent command jobs *)

Other(j) == IF j = 1 THEN 2 ELSE 1

\* the frames a job may receive while another job runs: its own marker line,
\* the marker line of the other job, the echo of its own typed line
PairFrameKinds == {"own", "foreign", "echo"}

PairFrameOf(kind, j) ==
  CASE kind = "own" -> Out(MarkerLine(opt[j].markerId, <<"0">>))
    [] kind = "foreign" -> Out(MarkerLine(opt[Other(j)].markerId, <<"0">>))
    [] kind = "echo" -> Out(wrapCommand(opt[j].command, opt[j].markerId) \o <<"\r", "\n">>)

\* two calls of executeTtydCommand with the same command text and distinct ids
InitPair ==
  /\ job = [j \in Jobs |-> Started]
  /\ \E b \in BOOLEAN :
       opt = [j \in Jobs |-> OptOf(IF j = 1 THEN MarkerIdA ELSE MarkerIdB, <<"l", "s">>, b)]
  /\ stream = [j \in Jobs |-> <<>>]
  /\ sess = [j \in Jobs |-> NoSession]
  /\ nframes = [j \in Jobs |-> 0]
  /\ UiIdle

PairFrame(j, kind) ==
  /\ nframes[j] < MaxFramesPair
  /\ Deliver(j, PairFrameOf(kind, j))
  /\ nframes' = [nframes EXCEPT ![j] = nframes[j] + 1]
  /\ UNCHANGED stream

NextPair ==
  \/ \E j \in Jobs : TimeoutFire(j)
  \/ \E j \in Jobs : CreateDone(j)
  \/ \E j \in Jobs : CreateFail(j)
  \/ \E j \in Jobs : SocketOpen(j)
  \/ \E j \in Jobs : SettleFire(j)
  \/ \E j \in Jobs, kind \in PairFrameKinds : PairFrame(j, kind)
  \/ \E j \in Jobs : ErrorEvent(j)
  \/ \E j \in Jobs : CloseEvent(j, 1006, <<>>)

SpecPair == InitPair /\ [][NextPair]_vars

\* C7: concurrent jobs do not interfere: a job is resolved successfully only
\* when its buffer holds a marker line with its own markerId, and a step in
\* which one job settles (timeout, success, rejection) leaves the other job's
\* socket, buffer, timer and settled state unchanged.
C7_NoInterference ==
  [][\A j \in Jobs :
       /\ (job'[j].outcome.kind = "resolved" /\ ~job'[j].outcome.timedOut)
            => Includes(job'[j].outputBuffer, MarkerLine(opt[j].markerId, <<"0">>))
       /\ (~job[j].isResolved /\ job'[j].isResolved)
            => job'[Other(j)] = job[Other(j)]]_vars

\* a job received the other job's marker line and is still unsettled, with
\* its socket open and its timer armed, after the other job has settled
C7_Witness ==
  \E j \in Jobs :
    /\ Includes(job[j].outputBuffer, MarkerLine(opt[Other(j)].markerId, <<"0">>))
    /\ ~job[j].isResolved
    /\ job[j].sock = "open"
    /\ job[j].timerPending
    /\ job[Other(j)].isResolved

----------------------------------------------------------------------------
(* Runs of useTerminal under any sequence of calls of what it returns *)

\* no command job is part of the run
NoJobs ==
  /\ job = [j \in Jobs |-> Unused]
  /\ opt = [j \in Jobs |-> OptOf(MarkerIdA, <<"l", "s">>, TRUE)]
  /\ stream = [j \in Jobs |-> <<>>]
  /\ sess = [j \in Jobs |-> NoSession]
  /\ nframes = [j \in Jobs |-> 0]

JobsIdle == NoJobs /\ AppIdle

InitHook ==
  /\ JobsIdle
  /\ TermIdle
  /\ \E u \in Endpoints \cup {Null}, a \in BOOLEAN : h = HookInit(u, a)
  /\ hTimers = {}
  /\ hNext = 1
  /\ policyOff = FALSE

\* the caller renders the hook with another ttydUrl
SetEndpoint(u) ==
  /\ u # h.ttydUrl
  /\ h' = HookRender([h EXCEPT !.ttydUrl = u])
  /\ policyOff' = IF u # Null THEN FALSE ELSE policyOff
  /\ UNCHANGED <<hTimers, hNext, jobVars, termVars>>

\* the terminal reports that its socket opened
ConnectedEvent ==
  /\ h' = HandleConnected(h)
  /\ UNCHANGED <<hTimers, hNext, policyOff, jobVars, termVars>>

\* the terminal reports that its socket closed
DisconnectedEvent ==
  /\ WillSchedule(h) => hNext <= MaxTimers
  /\ h' = HandleDisconnected(h, hNext)
  /\ hTimers' = IF WillSchedule(h) THEN hTimers \cup {hNext} ELSE hTimers
  /\ hNext' = IF WillSchedule(h) THEN hNext + 1 ELSE hNext
  /\ UNCHANGED <<policyOff, jobVars, termVars>>

\* a reconnect timer of the hook expires
HookTimerFire(id) ==
  /\ id \in hTimers
  /\ hTimers' = hTimers \ {id}
  /\ h' = HookTimerCallback(h)
  /\ UNCHANGED <<hNext, policyOff, jobVars, termVars>>

\* the caller calls reconnect()
CallReconnect ==
  /\ hTimers' = ClearRef(h, hTimers)
  /\ h' = HookReconnect(h)
  /\ policyOff' = FALSE
  /\ UNCHANGED <<hNext, jobVars, termVars>>

\* the caller calls disconnect()
CallDisconnect ==
  /\ hTimers' = ClearRef(h, hTimers)
  /\ h' = HookDisconnect(h)
  /\ policyOff' = TRUE
  /\ UNCHANGED <<hNext, jobVars, termVars>>

NextHook ==
  \/ \E u \in Endpoints \cup {Null} : SetEndpoint(u)
  \/ ConnectedEvent
  \/ DisconnectedEvent
  \/ \E id \in 1..MaxTimers : HookTimerFire(id)
  \/ CallReconnect
  \/ CallDisconnect

SpecHook == InitHook /\ [][NextHook]_vars

\* C9 as stated: the policy is off exactly from disconnect() until a new
\* endpoint is supplied: while it is off no disconnected event schedules a
\* reconnect timer, and once a new endpoint has been supplied (auto-reconnect
\* enabled) a disconnected event schedules one, whether or not a connected
\* event came in between.
C9_PolicyOffUntilNewEndpoint ==
  [][DisconnectedEvent =>
       /\ policyOff => hTimers' = hTimers
       /\ (~policyOff /\ h.autoReconnect /\ h.wsUrl # Null)
            => Cardinality(hTimers' \ hTimers) = 1]_vars

\* C10 as stated: at most one reconnect timer of useTerminal is pending in
\* every reachable state, and right after reconnect() or disconnect() none is.
C10_AtMostOneTimer ==
  [][/\ Cardinality(hTimers') <= 1
     /\ (CallReconnect \/ CallDisconnect) => hTimers' = {}]_vars

\* C13 as stated: right after disconnect() the status is disconnected and
\* wsUrl is null, and from then until reconnect() or a new endpoint no
\* automatic event (a connected event, a disconnected event, the expiry of a
\* timer) takes the status away from disconnected.
C13_DisconnectFreezes ==
  [][/\ CallDisconnect => (h'.status = "disconnected" /\ h'.wsUrl = Null)
     /\ (policyOff /\ (ConnectedEvent \/ DisconnectedEvent
                          \/ \E id \in 1..MaxTimers : HookTimerFire(id)))
          => h'.status = "disconnected"]_vars

----------------------------------------------------------------------------
(* Runs of XtermTerminal driven by useTerminal: wsUrl, onConnected and
   onDisconnected of the terminal are wsUrl, handleConnected and
   handleDisconnected of the hook *)

InitTerm ==
  /\ JobsIdle
  /\ \E u \in Endpoints \cup {Null}, a \in BOOLEAN : h = HookInit(u, a)
  /\ hTimers = {}
  /\ hNext = 1
  /\ policyOff = FALSE
  /\ x = NewEffect(h.wsUrl)
  /\ socks = <<>>
  /\ xTimers = {}
  /\ xNext = 1
  /\ disp = NoDisplay
  /\ page = NoPage
  /\ nUser = 0
  /\ nServer = 0

\* React re-runs the effect when the wsUrl handed to the terminal has changed:
\* cleanup of the previous run, then a fresh run
EffectSync(wsUrl) ==
  IF wsUrl # x.wsUrl
  THEN /\ x' = NewEffect(wsUrl)
       /\ socks' = CleanupSockets(x, socks)
       /\ xTimers' = CleanupTimers(x, xTimers)
       /\ page' = DisposePage(x, page)
       /\ UNCHANGED <<xNext, disp, nUser, nServer>>
  ELSE UNCHANGED termVars

\* connectWebSocket(), called with the terminal created and the effect mounted
Connect(xc) ==
  /\ Len(socks) < MaxSockets
  /\ socks' = Append(socks, NewSocket)
  /\ x' = [xc EXCEPT !.socket = Len(socks) + 1]

TermSetEndpoint(u) ==
  /\ x.phase # "gone"
  /\ u # h.ttydUrl
  /\ h' = HookRender([h EXCEPT !.ttydUrl = u])
  /\ policyOff' = IF u # Null THEN FALSE ELSE policyOff
  /\ EffectSync(h'.wsUrl)
  /\ UNCHANGED <<hTimers, hNext, jobVars>>

TermReconnect ==
  /\ x.phase # "gone"
  /\ hTimers' = ClearRef(h, hTimers)
  /\ h' = HookReconnect(h)
  /\ policyOff' = FALSE
  /\ EffectSync(h'.wsUrl)
  /\ UNCHANGED <<hNext, jobVars>>

TermDisconnect ==
  /\ x.phase # "gone"
  /\ hTimers' = ClearRef(h, hTimers)
  /\ h' = HookDisconnect(h)
  /\ policyOff' = TRUE
  /\ EffectSync(h'.wsUrl)
  /\ UNCHANGED <<hNext, jobVars>>

\* init() of the effect completes (lines 542-652): the terminal exists and
\* connectWebSocket() runs
InitDone ==
  /\ x.phase = "init"
  /\ x.isMounted
  /\ Connect([x EXCEPT !.phase = "ready"])
  /\ page' = NewPage(page)
  /\ UNCHANGED <<xTimers, xNext, disp, nUser, nServer, hookVars, jobVars>>

\* the reconnect timer of the terminal expires (lines 525-527)
TermTimerFire(id) ==
  /\ id \in xTimers
  /\ xTimers' = xTimers \ {id}
  /\ IF WillConnect(x) THEN Connect(x) ELSE UNCHANGED <<x, socks>>
  /\ UNCHANGED <<xNext, wireVars, hookVars, jobVars>>

\* socket.onopen (lines 463-480)
SockOpen(s) ==
  /\ s \in 1..Len(socks)
  /\ socks[s].st = "connecting"
  /\ socks' = IF socks[s].attached /\ x.isMounted
              THEN OnOpenSend(x, [socks EXCEPT ![s].st = "open"], page)
              ELSE [socks EXCEPT ![s].st = "open"]
  /\ h' = IF socks[s].attached /\ x.isMounted THEN HandleConnected(h) ELSE h
  /\ UNCHANGED <<x, xTimers, xNext, wireVars, hTimers, hNext, policyOff, jobVars>>

\* socket.onclose on the closure of the effect (lines 520-530): socket = null,
\* the notice, and the reconnect timer for a code other than 1000
TermOnClose(code) ==
  /\ SchedulesReconnect(code) => xNext <= MaxTimers
  /\ x' = [x EXCEPT !.socket = None,
                    !.reconnectTimeout =
                       IF SchedulesReconnect(code) THEN xNext ELSE x.reconnectTimeout]
  /\ xTimers' = IF SchedulesReconnect(code) THEN xTimers \cup {xNext} ELSE xTimers
  /\ xNext' = IF SchedulesReconnect(code) THEN xNext + 1 ELSE xNext
  /\ page' = [page EXCEPT !.notice = CloseNotice(code)]

\* socket.onclose (lines 516-531) with the close code of the event; a socket
\* that never opened closes with the abnormal-closure code
SockClose(s, code) ==
  /\ s \in 1..Len(socks)
  /\ socks[s].st \in {"connecting", "open", "closing"}
  /\ socks[s].st = "connecting" => code = 1006
  /\ socks' = [socks EXCEPT ![s] = ClosedSocket]
  /\ IF socks[s].attached /\ x.isMounted
     THEN /\ WillSchedule(h) => hNext <= MaxTimers
          /\ h' = HandleDisconnected(h, hNext)
          /\ hTimers' = IF WillSchedule(h) THEN hTimers \cup {hNext} ELSE hTimers
          /\ hNext' = IF WillSchedule(h) THEN hNext + 1 ELSE hNext
          /\ TermOnClose(code)
     ELSE UNCHANGED <<h, hTimers, hNext, x, xTimers, xNext, page>>
  /\ UNCHANGED <<disp, nUser, nServer, policyOff, jobVars>>

\* a reconnect timer of the hook expires; the url handed to the terminal stays,
\* and React drops the state updates of an unmounted component
TermHookTimerFire(id) ==
  /\ id \in hTimers
  /\ hTimers' = hTimers \ {id}
  /\ h' = IF x.phase = "gone" THEN h ELSE HookTimerCallback(h)
  /\ UNCHANGED <<hNext, policyOff, jobVars, termVars>>

\* the component that holds the hook and the terminal unmounts: the cleanup of
\* the main effect (lines 666-704) and the cleanup of the hook (lines 118-124)
Unmount ==
  /\ x.phase # "gone"
  /\ x' = Unmounted
  /\ socks' = CleanupSockets(x, socks)
  /\ xTimers' = CleanupTimers(x, xTimers)
  /\ page' = DisposePage(x, page)
  /\ hTimers' = ClearRef(h, hTimers)
  /\ UNCHANGED <<h, hNext, xNext, disp, nUser, nServer, policyOff, jobVars>>

NextTerm ==
  \/ \E u \in Endpoints \cup {Null} : TermSetEndpoint(u)
  \/ TermReconnect
  \/ TermDisconnect
  \/ InitDone
  \/ \E id \in 1..MaxTimers : TermTimerFire(id)
  \/ \E s \in 1..MaxSockets : SockOpen(s)
  \/ \E s \in 1..MaxSockets, code \in CloseCodes : SockClose(s, code)
  \/ \E id \in 1..MaxTimers : TermHookTimerFire(id)
  \/ Unmount

SpecTerm == InitTerm /\ [][NextTerm]_vars

\* C8 as stated: after a socket of the mounted terminal closes with a code
\* other than 1000 exactly one new connection attempt is scheduled, and after
\* it closes with code 1000 no reconnect is scheduled, neither by the terminal
\* client nor by useTerminal.
C8_ReconnectByCloseCode ==
  [][\A s \in 1..Len(socks), code \in CloseCodes :
       (SockClose(s, code) /\ socks[s].attached /\ x.isMounted)
         => IF code = 1000
            THEN xTimers' = xTimers /\ hTimers' = hTimers
            ELSE Cardinality(xTimers' \ xTimers) = 1]_vars

\* the sockets of the terminal that are connecting or open
ActiveSockets == {s \in 1..Len(socks) : socks[s].st \in {"connecting", "open"}}

\* C11: one terminal instance never has two sockets that are connecting or
\* open at the same time, whatever the sequence of endpoint changes,
\* disconnect() and re-supply of the endpoint, closes, timer expiries and
\* unmounts.
C11_OneActiveSocket == Cardinality(ActiveSockets) <= 1

\* the effect was re-run while its socket was live: the old socket is still
\* closing and the socket of the new run is connecting
C11_Witness ==
  /\ Len(socks) >= 2
  /\ socks[1].st = "closing"
  /\ ~socks[1].attached
  /\ socks[2].st = "connecting"
  /\ x.socket = 2

\* C12 as stated: when a socket of the mounted terminal closes while the status
\* of useTerminal is connected, an abnormal close (code other than 1000) makes
\* the status error, with a reconnect timer whose expiry makes it connecting,
\* and a clean close (code 1000) makes the status disconnected with no timer
\* that would make it connecting.
C12_LossTransitions ==
  [][\A s \in 1..Len(socks), code \in CloseCodes :
       (SockClose(s, code) /\ socks[s].attached /\ x.isMounted /\ h.status = "connected")
         => IF code # 1000
            THEN h'.status = "error" /\ Cardinality(hTimers' \ hTimers) = 1
            ELSE h'.status = "disconnected" /\ hTimers' = hTimers]_vars

\* C14 as stated: after reconnect() with a non-null endpoint no reconnect timer
\* of the hook is pending, the status is connecting and a fresh run of the
\* terminal's effect for the endpoint has started (its init() will open a new
\* socket), also when wsUrl equalled the endpoint before the call.
C14_ReconnectRetriesNow ==
  [][(TermReconnect /\ h.ttydUrl # Null)
       => /\ hTimers' = {}
          /\ h'.status = "connecting"
          /\ x' = NewEffect(h.ttydUrl)]_vars

\* a step that ends a run of the main effect: the wsUrl handed to the terminal
\* changed, or the terminal unmounted
RunEnds ==
  /\ x.phase \in {"init", "ready"}
  /\ (x'.wsUrl # x.wsUrl \/ x'.phase = "gone")

C27_NoConnectionWithoutEndpoint ==
  h.status \in {"connecting", "connected"} => h.wsUrl # Null

----------------------------------------------------------------------------
(* XtermTerminal rendered by TerminalDisplay: wsUrl is the ttydUrl of the
   display, onReady, onConnected and onDisconnected are its handlers *)

\* the urls TerminalDisplay may be given as ttydUrl
DisplayEndpoints == {"https://a/?authorization=dXNlcjpwdw", NoAuthEndpoint}

\* TerminalDisplay renders XtermTerminal (line 268)
Rendered(d) == d.running /\ d.ttydUrl # Null

\* the wsUrl of the rendered XtermTerminal; null when none is rendered
DisplayUrl(d) == IF Rendered(d) THEN d.ttydUrl ELSE Null

\* the frames the server may send to the terminal: output, a window title,
\* preferences, a zero-length message, a frame with an unknown code
TermFrameKinds == {"output", "title", "prefs", "empty", "unknown"}

TermFrameOf(kind) ==
  CASE kind = "output" -> <<"0", "a">>
    [] kind = "title" -> <<"1", "t">>
    [] kind = "prefs" -> <<"2", "p">>
    [] kind = "empty" -> <<>>
    [] kind = "unknown" -> <<"7", "z">>

\* String.fromCharCode(new Uint8Array(rawData)[0]) (line 486): the code of a
\* zero-length message is the character NUL
FrameCode(frame) == IF frame = <<>> THEN "NUL" ELSE frame[1]

TermOnMessageAnyCode(pg, frame) ==
  [pg EXCEPT !.content = Append(@, Tail0(frame, 2))]

\* the switch of socket.onmessage (lines 489-513)
TermOnMessage(pg, frame) ==
  CASE FrameCode(frame) = "0" -> [pg EXCEPT !.content = Append(@, Tail(frame))]
    [] FrameCode(frame) = "1" -> [pg EXCEPT !.title = Tail(frame)]
    [] FrameCode(frame) = "2" -> pg
    [] OTHER -> pg

\* the enum ClientCommand (lines 59-64)
ClientCodes == {"0", "1", "2", "3"}

InputFrameNoCode(data) == data

\* the frame sendData builds from a string (lines 383-389)
InputFrame(data) == <<"0">> \o data

ResizeAsInput(cols, rows) == <<"0", "{", "columns", cols, "rows", rows, "}">>

\* the frame of the terminal.onResize handler (lines 602-603)
ResizeFrame(cols, rows) == <<"1", "{", "columns", cols, "rows", rows, "}">>

SocketIsSet(xc, ss) == xc.socket # None /\ ss[xc.socket].st \in {"connecting", "open"}

\* socket is set and OPEN (lines 381 and 601)
SocketIsOpen(xc, ss) == xc.socket # None /\ ss[xc.socket].st = "open"

\* handleReady, handleConnected and handleDisconnected of TerminalDisplay
DisplayReady(d) == [d EXCEPT !.terminalReady = TRUE]

DisplayConnected(d) == [d EXCEPT !.connectionStatus = "connected"]

DisplayDisconnected(d) == [d EXCEPT !.connectionStatus = "connecting"]

\* React runs the cleanup of the effect and a fresh run when the wsUrl of the
\* rendered XtermTerminal has changed, or XtermTerminal is no longer rendered
DisplaySync(wsUrl) ==
  IF wsUrl # x.wsUrl
  THEN /\ x' = NewEffect(wsUrl)
       /\ socks' = CleanupSockets(x, socks)
       /\ xTimers' = CleanupTimers(x, xTimers)
       /\ page' = DisposePage(x, page)
  ELSE UNCHANGED <<x, socks, xTimers, page>>

\* connectWebSocket() (lines 448-461) with the terminal created and the effect
\* mounted: without an authorization parameter onDisconnected is called and no
\* socket is created
DisplayConnect(xc, d) ==
  IF ParseFails(xc.wsUrl)
  THEN /\ x' = xc
       /\ socks' = socks
       /\ disp' = DisplayDisconnected(d)
  ELSE /\ Connect(xc)
       /\ disp' = d

\* the hook is not part of the run
HookIdle ==
  /\ h = HookInit(Null, TRUE)
  /\ hTimers = {}
  /\ hNext = 1
  /\ policyOff = FALSE

\* TerminalDisplay is mounted with some props; the effect of a rendered
\* XtermTerminal has run and its init() is pending
InitDisplay ==
  /\ JobsIdle
  /\ HookIdle
  /\ \E u \in DisplayEndpoints \cup {Null}, r \in BOOLEAN :
       disp = [NoDisplay EXCEPT !.ttydUrl = u, !.running = r]
  /\ x = NewEffect(DisplayUrl(disp))
  /\ socks = <<>>
  /\ xTimers = {}
  /\ xNext = 1
  /\ page = NoPage
  /\ nUser = 0
  /\ nServer = 0

\* the parent renders TerminalDisplay with another ttydUrl or sandbox status
DisplaySetProps(u, r) ==
  /\ x.phase # "gone"
  /\ <<u, r>> # <<disp.ttydUrl, disp.running>>
  /\ disp' = [disp EXCEPT !.ttydUrl = u, !.running = r]
  /\ DisplaySync(DisplayUrl(disp'))
  /\ UNCHANGED <<xNext, nUser, nServer, hookVars, jobVars>>

\* init() of the effect completes (lines 542-652): the terminal exists, its
\* handlers are set, onReady is called and connectWebSocket() runs
DisplayInitDone ==
  /\ x.phase = "init"
  /\ x.isMounted
  /\ page' = NewPage(page)
  /\ DisplayConnect([x EXCEPT !.phase = "ready"], DisplayReady(disp))
  /\ UNCHANGED <<xTimers, xNext, nUser, nServer, hookVars, jobVars>>

\* the reconnect timer of the terminal expires (lines 525-527)
DisplayTimerFire(id) ==
  /\ id \in xTimers
  /\ xTimers' = xTimers \ {id}
  /\ IF WillConnect(x) THEN DisplayConnect(x, disp) ELSE UNCHANGED <<x, socks, disp>>
  /\ UNCHANGED <<xNext, page, nUser, nServer, hookVars, jobVars>>

\* socket.onopen (lines 463-480)
DisplaySockOpen(s) ==
  /\ s \in 1..Len(socks)
  /\ socks[s].st = "connecting"
  /\ IF socks[s].attached /\ x.isMounted
     THEN /\ socks' = OnOpenSend(x, [socks EXCEPT ![s].st = "open"], page)
          /\ disp' = DisplayConnected(disp)
     ELSE /\ socks' = [socks EXCEPT ![s].st = "open"]
          /\ disp' = disp
  /\ UNCHANGED <<x, xTimers, xNext, page, nUser, nServer, hookVars, jobVars>>

\* socket.onclose (lines 516-531) with the close code of the event
DisplaySockClose(s, code) ==
  /\ s \in 1..Len(socks)
  /\ socks[s].st \in {"connecting", "open", "closing"}
  /\ socks[s].st = "connecting" => code = 1006
  /\ socks' = [socks EXCEPT ![s] = ClosedSocket]
  /\ IF socks[s].attached /\ x.isMounted
     THEN /\ disp' = DisplayDisconnected(disp)
          /\ TermOnClose(code)
     ELSE UNCHANGED <<disp, x, xTimers, xNext, page>>
  /\ UNCHANGED <<nUser, nServer, hookVars, jobVars>>

\* the user types a key: terminal.onData calls sendData (lines 572-584)
UserInput ==
  /\ x.phase = "ready"
  /\ nUser < MaxInputs
  /\ nUser' = nUser + 1
  /\ socks' = IF SocketIsOpen(x, socks)
              THEN [socks EXCEPT ![x.socket].sent = Append(@, InputFrame(<<"k">>))]
              ELSE socks
  /\ UNCHANGED <<x, xTimers, xNext, disp, page, nServer, hookVars, jobVars>>

\* fit() gives the terminal another geometry: terminal.onResize (lines 600-605)
UserResize(cols, rows) ==
  /\ x.phase = "ready"
  /\ nUser < MaxInputs
  /\ <<cols, rows>> # <<page.cols, page.rows>>
  /\ nUser' = nUser + 1
  /\ page' = [page EXCEPT !.cols = cols, !.rows = rows]
  /\ socks' = IF SocketIsOpen(x, socks)
              THEN [socks EXCEPT ![x.socket].sent = Append(@, ResizeFrame(cols, rows))]
              ELSE socks
  /\ UNCHANGED <<x, xTimers, xNext, disp, nServer, hookVars, jobVars>>

\* a message of the server arrives on an open socket: socket.onmessage
ServerFrame(s, kind) ==
  /\ s \in 1..Len(socks)
  /\ socks[s].st = "open"
  /\ nServer < MaxFrames
  /\ nServer' = nServer + 1
  /\ page' = IF socks[s].attached /\ x.phase = "ready" /\ x.isMounted
             THEN TermOnMessage(page, TermFrameOf(kind))
             ELSE page
  /\ UNCHANGED <<x, socks, xTimers, xNext, disp, nUser, hookVars, jobVars>>

\* TerminalDisplay unmounts: the cleanup of the effect (lines 666-704)
DisplayUnmount ==
  /\ x.phase # "gone"
  /\ x' = Unmounted
  /\ socks' = CleanupSockets(x, socks)
  /\ xTimers' = CleanupTimers(x, xTimers)
  /\ page' = DisposePage(x, page)
  /\ UNCHANGED <<xNext, disp, nUser, nServer, hookVars, jobVars>>

NextDisplay ==
  \/ \E u \in DisplayEndpoints \cup {Null}, r \in BOOLEAN : DisplaySetProps(u, r)
  \/ DisplayInitDone
  \/ \E id \in 1..MaxTimers : DisplayTimerFire(id)
  \/ \E s \in 1..MaxSockets : DisplaySockOpen(s)
  \/ \E s \in 1..MaxSockets, code \in CloseCodes : DisplaySockClose(s, code)
  \/ UserInput
  \/ \E g \in Geometries : UserResize(g[1], g[2])
  \/ \E s \in 1..MaxSockets, kind \in TermFrameKinds : ServerFrame(s, kind)
  \/ DisplayUnmount

SpecDisplay == InitDisplay /\ [][NextDisplay]_vars

\* a step in which the terminal calls onDisconnected: the close event of its
\* socket, or connectWebSocket() with a url parseUrl rejects
ReportsDisconnect ==
  \/ \E s \in 1..Len(socks), code \in CloseCodes :
       DisplaySockClose(s, code) /\ socks[s].attached /\ x.isMounted
  \/ DisplayInitDone /\ ParseFails(x.wsUrl)
  \/ \E id \in 1..MaxTimers : DisplayTimerFire(id) /\ WillConnect(x) /\ ParseFails(x.wsUrl)

\* C28 as stated: when the terminal has reported a disconnect and the status
\* of TerminalDisplay is connecting, the terminal has a socket being opened
\* or a reconnect timer pending.
C28_ConnectingMeansAttempt ==
  [][(ReportsDisconnect /\ disp'.connectionStatus = "connecting")
       => \/ xTimers' # {}
          \/ x'.socket # None /\ socks'[x'.socket].st = "connecting"]_vars

----------------------------------------------------------------------------
(* Runs of one client of the ttyd protocol: either a command job, called with
   or without the authorization option, or the terminal of a TerminalDisplay *)

InitClientJob ==
  /\ job = [j \in Jobs |-> IF j = 1 THEN Started ELSE Unused]
  /\ \E a \in {"dXNlcjpwdw", Undefined} :
       opt = [j \in Jobs |->
                [OptOf(MarkerIdA, <<"l", "s">>, TRUE) EXCEPT !.authorization = a]]
  /\ stream = [j \in Jobs |-> <<>>]
  /\ sess = [j \in Jobs |-> NoSession]
  /\ nframes = [j \in Jobs |-> 0]
  /\ AppIdle
  /\ HookIdle
  /\ x = Unmounted
  /\ socks = <<>>
  /\ xTimers = {}
  /\ xNext = 1
  /\ disp = NoDisplay
  /\ page = NoPage
  /\ nUser = 0
  /\ nServer = 0

InitClient == InitClientJob \/ InitDisplay

NextClient == NextJob \/ NextDisplay

SpecClient == InitClient /\ [][NextClient]_vars

\* old is a proper prefix of new
Extends(new, old) ==
  /\ Len(new) > Len(old)
  /\ SubSeq(new, 1, Len(old)) = old

C22_EveryFrameHasCode ==
  /\ \A s \in 1..Len(socks) : \A i \in 1..Len(socks[s].sent) :
        socks[s].sent[i][1] \in ClientCodes
  /\ \A j \in Jobs : \A i \in 1..Len(job[j].sent) :
        job[j].sent[i][1] \in ClientCodes

\* the messages of a socket's log after the first start with a client code,
\* and the first one is the JSON text of the handshake
CodedAfterHandshake(sent) ==
  \A i \in 1..Len(sent) :
    IF i = 1 THEN sent[i][1] = "{" ELSE sent[i][1] \in ClientCodes

\* C22 amended: every message the terminal or a command job sends after the
\* handshake starts with a client code, the payload following it; the
\* handshake, the first message of a socket, is JSON text without a code
\* byte. Every received message is dispatched on its first byte with the
\* rest as payload: on the terminal code '0' writes the rest to the terminal,
\* '1' makes it the title and any other code changes nothing; on a command
\* job code '0' appends the rest to the output buffer and any other code, or
\* a zero-length message, changes nothing.
C22_FramesAfterHandshakeHaveCode ==
  [][/\ \A s \in 1..Len(socks') : CodedAfterHandshake(socks'[s].sent)
     /\ \A j \in Jobs : CodedAfterHandshake(job'[j].sent)
     /\ UserInput /\ SocketIsOpen(x, socks) =>
          socks'[x.socket].sent = Append(socks[x.socket].sent, <<"0", "k">>)
     /\ \A s \in 1..Len(socks), kind \in TermFrameKinds \ {"empty"} :
          (ServerFrame(s, kind) /\ socks[s].attached /\ x.phase = "ready" /\ x.isMounted)
            => LET f == TermFrameOf(kind)
               IN CASE f[1] = "0" ->
                         page' = [page EXCEPT !.content = Append(@, Tail(f))]
                    [] f[1] = "1" -> page' = [page EXCEPT !.title = Tail(f)]
                    [] OTHER -> page' = page
     /\ \A j \in Jobs, kind \in FrameKinds :
          FreeFrame(j, kind)
            => LET f == FrameOf(kind, opt[j].markerId)
               IN IF f # <<>> /\ f[1] = "0"
                  THEN job'[j].outputBuffer = job[j].outputBuffer \o Tail(f)
                  ELSE job'[j] = job[j]]_vars

\* the terminal has sent the handshake and an INPUT frame on its socket and a
\* title frame of the server has been dispatched
C22_Witness ==
  /\ x.socket # None
  /\ Len(socks[x.socket].sent) = 2
  /\ socks[x.socket].sent[2] = <<"0", "k">>
  /\ page.title = <<"t">>

\* C16: a resize of the terminal while its socket is open sends exactly one
\* frame on that socket, the RESIZE_TERMINAL frame: code '1' followed by the
\* JSON of the new {columns, rows}; it sends no INPUT frame and nothing on any
\* other socket.
C16_ResizeFrame ==
  [][\A g \in Geometries :
       (UserResize(g[1], g[2]) /\ SocketIsOpen(x, socks))
         => /\ socks'[x.socket].sent =
                 Append(socks[x.socket].sent,
                        <<"1", "{", "columns", g[1], "rows", g[2], "}">>)
            /\ \A s \in 1..Len(socks) : s # x.socket => socks'[s] = socks[s]
            /\ Len(socks') = Len(socks)]_vars

\* the terminal was resized from 80x24 to 120x40 while its socket was open
C16_Witness ==
  /\ x.socket # None
  /\ socks[x.socket].st = "open"
  /\ page.cols = 120
  /\ page.rows = 40
  /\ Len(socks[x.socket].sent) = 2
  /\ socks[x.socket].sent[1] = TermInitMsg(Authorization(x.wsUrl), XTERM_COLS, XTERM_ROWS)
  /\ socks[x.socket].sent[2][1] = "1"

\* C17: a zero-length message, or a frame whose code the receiver does not
\* handle (for a command job every code but '0', for the terminal every code
\* but '0', '1', '2'), changes nothing of the receiver: buffer, settlement and
\* socket of the job; content, title, sockets, timers and connection status of
\* the terminal.
C17_UnknownFramesIgnored ==
  [][/\ \A j \in Jobs, kind \in FrameKinds :
          (FreeFrame(j, kind)
             /\ (FrameOf(kind, opt[j].markerId) = <<>>
                   \/ FrameOf(kind, opt[j].markerId)[1] # "0"))
            => job' = job
     /\ \A s \in 1..Len(socks), kind \in TermFrameKinds :
          (ServerFrame(s, kind)
             /\ (TermFrameOf(kind) = <<>>
                   \/ TermFrameOf(kind)[1] \notin {"0", "1", "2"}))
            => /\ page' = page
               /\ socks' = socks
               /\ x' = x
               /\ xTimers' = xTimers
               /\ disp' = disp]_vars

\* an unsettled job with an open socket has received two messages, none of
\* them an OUTPUT frame, and its buffer is still empty
C17_Witness ==
  \E j \in Jobs :
    /\ nframes[j] >= 2
    /\ job[j].sock = "open"
    /\ ~job[j].isResolved
    /\ ~job[j].errored
    /\ job[j].outputBuffer = <<>>

----------------------------------------------------------------------------
(* Further properties of one command job *)

\* C18 as stated: when the connection of a job that has produced no result is
\* closed with code 1008 or with a reason containing 'auth', the job is
\* rejected with AUTHENTICATION_FAILED, whether or not the transport has
\* delivered an error event before the close event.
C18_AuthFailureClassified ==
  [][\A j \in Jobs, code \in CloseCodes, reason \in CloseReasons :
       (CloseEvent(j, code, reason)
          /\ (code = 1008 \/ Includes(reason, <<"a", "u", "t", "h">>))
          /\ job[j].outcome.kind # "resolved")
         => job'[j].outcome = Failure("AUTHENTICATION_FAILED")]_vars

\* C25 as stated: a job sends INPUT frames only in the callback of the settle
\* delay, only when it has sent the handshake and nothing else, has not
\* settled and its socket is open, and then it sends exactly the wrapped
\* command in one INPUT frame followed by one INPUT frame with a carriage
\* return; a callback that runs after the socket closed or errored or the job
\* timed out sends nothing.
C25_CommandTypedOnceOnLiveJob ==
  [][\A j \in Jobs :
       /\ (job'[j].sent # job[j].sent /\ job[j].sent # <<>>)
            => /\ SettleFire(j)
               /\ Len(job[j].sent) = 1
               /\ ~job[j].isResolved
               /\ job[j].sock = "open"
               /\ job'[j].sent = job[j].sent \o
                    << <<"0">> \o wrapCommand(opt[j].command, opt[j].markerId),
                       <<"0", "\r">> >>
       /\ (SettleFire(j) /\ (job[j].isResolved \/ job[j].sock # "open"))
            => job'[j].sent = job[j].sent]_vars

\* runs of one command job in which a pending timeout timer eventually
\* expires: setTimeout(..., timeoutMs) of lines 301-308
SpecJobFair == SpecJob /\ \A j \in Jobs : WF_vars(TimeoutFire(j))

\* C26: every job that has been created eventually settles, whatever the
\* transport does or fails to do, and a settled job has no timeout timer
\* pending.
C26_EventuallySettles ==
  /\ \A j \in Jobs : (job[j].pc # "unused") ~> job[j].isResolved
  /\ [](\A j \in Jobs : job[j].isResolved => ~job[j].timerPending)

\* the job has resolved by its timeout while createWebSocket() had not
\* completed
C26_Witness ==
  /\ job[1].pc = "creating"
  /\ job[1].isResolved
  /\ job[1].outcome.timedOut
  /\ ~job[1].timerPending

----------------------------------------------------------------------------
(* Runs of execCommand: the wrapper awaits one command job against a remote
   shell session *)

execCommandStrict(outcome) ==
  IF outcome.kind = "rejected" THEN Thrown(outcome.code)
  ELSE IF outcome.timedOut THEN Thrown("TIMEOUT")
  ELSE IF outcome.exitCode # 0 THEN Thrown("PROTOCOL_ERROR")
  ELSE Returned(outcome.output)

\* execCommand after its await (lines 552-564): a rejection of the job
\* propagates, a timed-out result is thrown as TIMEOUT, the output is returned
execCommand(outcome) ==
  IF outcome.kind = "rejected" THEN Thrown(outcome.code)
  ELSE IF outcome.timedOut THEN Thrown("TIMEOUT")
  ELSE Returned(outcome.output)

\* execCommand passes neither stripAnsi nor cols and rows: the defaults apply
InitExec ==
  /\ job = [j \in Jobs |-> IF j = 1 THEN [Started EXCEPT !.wrapped = Awaiting] ELSE Unused]
  /\ \E c \in Commands : opt = [j \in Jobs |-> OptOf(MarkerIdA, c, TRUE)]
  /\ stream = [j \in Jobs |-> <<>>]
  /\ \E s \in Sessions : sess = [j \in Jobs |-> IF j = 1 THEN s ELSE NoSession]
  /\ nframes = [j \in Jobs |-> 0]
  /\ UiIdle

\* the promise of the job has settled and the await of execCommand resumes
AwaitDone(j) ==
  /\ job[j].wrapped.kind = "awaiting"
  /\ job[j].outcome.kind # "pending"
  /\ job' = [job EXCEPT ![j].wrapped = execCommand(job[j].outcome)]
  /\ UNCHANGED <<opt, stream, sess, nframes, uiVars>>

NextExec ==
  \/ NextShell
  \/ \E j \in Jobs : AwaitDone(j)

SpecExec == InitExec /\ [][NextExec]_vars

\* C19: execCommand throws TtydExecError with code TIMEOUT exactly when the
\* result of the job has timedOut = true, throws the error of a rejected job
\* unchanged, and in every other case returns the output of the result
\* unchanged, whatever the exit code is.
C19_WrapperConvertsTimeouts ==
  \A j \in Jobs :
    job[j].wrapped.kind \in {"thrown", "returned"} =>
      /\ (job[j].wrapped.kind = "thrown" /\ job[j].wrapped.code = "TIMEOUT")
           <=> (job[j].outcome.kind = "resolved" /\ job[j].outcome.timedOut)
      /\ job[j].outcome.kind = "rejected"
           => (job[j].wrapped.kind = "thrown" /\ job[j].wrapped.code = job[j].outcome.code)
      /\ (job[j].outcome.kind = "resolved" /\ ~job[j].outcome.timedOut)
           => (job[j].wrapped.kind = "returned"
                 /\ job[j].wrapped.output = job[j].outcome.output)

\* execCommand returned the output of a command that exited with code 12
C19_Witness ==
  \E j \in Jobs :
    /\ job[j].wrapped.kind = "returned"
    /\ job[j].outcome.exitCode = 12
    /\ job[j].outcome.output # <<>>
    /\ job[j].wrapped.output = job[j].outcome.output

----------------------------------------------------------------------------
(* Further properties of one client *)

\* C20 as stated: a connection attempt whose endpoint carries no authorization
\* secret never creates a socket and sends no handshake: a run of the
\* terminal's effect for such a url has no socket, and a command job called
\* without the authorization option creates no socket and sends nothing.
C20_MissingSecretFailsFast ==
  /\ (x.phase \in {"init", "ready"} /\ ParseFails(x.wsUrl)) => x.socket = None
  /\ \A j \in Jobs :
       (job[j].pc # "unused" /\ WsUrlAuthorization(opt[j].authorization) = "")
         => (job[j].sock = "none" /\ job[j].sent = <<>>)

----------------------------------------------------------------------------
(* TerminalContainer: the tab list. The id of a tab is the number its string
   denotes: '1' for the initial tab, Date.now().toString() for an added one;
   the name of a tab plays no part *)

\* useState initial values (lines 58-59)
InitialTabs == [tabs |-> <<1>>, activeTabId |-> 1]

\* handleTabAdd (lines 84-92) with the value Date.now() returns
handleTabAdd(t, newId) == [tabs |-> Append(t.tabs, newId), activeTabId |-> newId]

\* tabs.filter((t) => t.id !== id) (line 101)
FilterTabs(ts, id) == SelectSeq(ts, LAMBDA e : e # id)

\* handleTabClose (lines 97-108); with no tab remaining remainingTabs[0].id
\* throws after setTabs has been called, so activeTabId stays
handleTabClose(t, id) ==
  IF Len(t.tabs) = 1 THEN t
  ELSE LET remainingTabs == FilterTabs(t.tabs, id)
       IN [tabs |-> remainingTabs,
           activeTabId |-> IF t.activeTabId = id /\ remainingTabs # <<>>
                           THEN remainingTabs[1] ELSE t.activeTabId]

\* handleTabSelect (lines 113-115)
handleTabSelect(t, id) == [t EXCEPT !.activeTabId = id]

\* the ids of the tabs the tab bar shows
TabIds == {tabs[i] : i \in 1..Len(tabs)}

\* TerminalContainer is mounted at some time after the epoch
InitTabs ==
  /\ NoJobs
  /\ HookIdle
  /\ TermIdle
  /\ BootIdle
  /\ repo = NoRepo
  /\ tabs = InitialTabs.tabs
  /\ activeTabId = InitialTabs.activeTabId
  /\ now = 2

\* a millisecond passes
Tick ==
  /\ now < MaxClock
  /\ now' = now + 1
  /\ UNCHANGED <<tabs, activeTabId, shell, flagFile, cli, repo, job, opt, stream,
                 sess, nframes, hookVars, termVars>>

\* the user clicks the add button
TabAdd ==
  /\ Len(tabs) < MaxTabs
  /\ LET t == handleTabAdd([tabs |-> tabs, activeTabId |-> activeTabId], now)
     IN tabs' = t.tabs /\ activeTabId' = t.activeTabId
  /\ UNCHANGED <<now, shell, flagFile, cli, repo, job, opt, stream, sess, nframes,
                 hookVars, termVars>>

\* the user clicks the close button of a tab
TabClose(id) ==
  /\ id \in TabIds
  /\ LET t == handleTabClose([tabs |-> tabs, activeTabId |-> activeTabId], id)
     IN tabs' = t.tabs /\ activeTabId' = t.activeTabId
  /\ UNCHANGED <<now, shell, flagFile, cli, repo, job, opt, stream, sess, nframes,
                 hookVars, termVars>>

\* the user clicks a tab
TabSelect(id) ==
  /\ id \in TabIds
  /\ LET t == handleTabSelect([tabs |-> tabs, activeTabId |-> activeTabId], id)
     IN tabs' = t.tabs /\ activeTabId' = t.activeTabId
  /\ UNCHANGED <<now, shell, flagFile, cli, repo, job, opt, stream, sess, nframes,
                 hookVars, termVars>>

NextTabs ==
  \/ Tick
  \/ TabAdd
  \/ \E id \in 1..MaxClock : TabClose(id)
  \/ \E id \in 1..MaxClock : TabSelect(id)

SpecTabs == InitTabs /\ [][NextTabs]_vars

\* C23 as stated: after any sequence of add, close and select the tab list is
\* non-empty and activeTabId is the id of one of its tabs; closing the only
\* tab changes nothing, closing the active tab makes the first remaining tab
\* active, closing an inactive tab leaves activeTabId as it is.
C23_TabInvariant ==
  [][/\ tabs' # <<>>
     /\ \E i \in 1..Len(tabs') : tabs'[i] = activeTabId'
     /\ \A id \in 1..MaxClock :
          TabClose(id) =>
            /\ Len(tabs) = 1 => UNCHANGED <<tabs, activeTabId>>
            /\ (Len(tabs) > 1 /\ id = activeTabId) => activeTabId' = tabs'[1]
            /\ id # activeTabId => activeTabId' = activeTabId]_vars

\* C29 as stated: no two tabs of the list have the same id, closing a tab of
\* a list of several removes exactly one tab, and exactly one tab is the
\* active one.
C29_DistinctTabIds ==
  [][/\ \A i, k \in 1..Len(tabs') : i # k => tabs'[i] # tabs'[k]
     /\ Cardinality({i \in 1..Len(tabs') : tabs'[i] = activeTabId'}) = 1
     /\ \A id \in 1..MaxClock :
          (TabClose(id) /\ Len(tabs) > 1) => Len(tabs') = Len(tabs) - 1]_vars

----------------------------------------------------------------------------
(* Shell bootstrap of the container: the auto-start block of .bashrc, run by
   every interactive shell ttyd starts (a terminal tab, a reconnect, the
   session of a command job) *)

\* [ ! -f "$CLAUDE_FLAG_FILE" ] (line 58) decides between the block and its
\* end
TestFlag(exists) == IF exists THEN "done" ELSE "touch"

\* the container has started: no shell yet, /tmp holds no flag file
InitBoot ==
  /\ NoJobs
  /\ HookIdle
  /\ TermIdle
  /\ TabsIdle
  /\ repo = NoRepo
  /\ shell = [s \in Shells |-> "none"]
  /\ flagFile = FALSE
  /\ cli = {}

\* ttyd starts a shell, which reads .bashrc up to the auto-start block
ShellStart(s) ==
  /\ shell[s] = "none"
  /\ shell' = [shell EXCEPT ![s] = "test"]
  /\ UNCHANGED <<flagFile, cli, tabs, activeTabId, now, repo, transportVars>>

\* the shell evaluates the test of the if (line 58)
ShellTest(s) ==
  /\ shell[s] = "test"
  /\ shell' = [shell EXCEPT ![s] = TestFlag(flagFile)]
  /\ UNCHANGED <<flagFile, cli, tabs, activeTabId, now, repo, transportVars>>

\* touch "$CLAUDE_FLAG_FILE" (line 59)
ShellTouch(s) ==
  /\ shell[s] = "touch"
  /\ flagFile' = TRUE
  /\ shell' = [shell EXCEPT ![s] = "launch"]
  /\ UNCHANGED <<cli, tabs, activeTabId, now, repo, transportVars>>

\* echo and claude (lines 60-61): the shell launches the CLI
ShellLaunch(s) ==
  /\ shell[s] = "launch"
  /\ cli' = cli \cup {s}
  /\ shell' = [shell EXCEPT ![s] = "done"]
  /\ UNCHANGED <<flagFile, tabs, activeTabId, now, repo, transportVars>>

\* the shell exits (its tab is closed, its job has settled) and ttyd may start
\* another one in its place
ShellExit(s) ==
  /\ shell[s] = "done"
  /\ shell' = [shell EXCEPT ![s] = "none"]
  /\ UNCHANGED <<flagFile, cli, tabs, activeTabId, now, repo, transportVars>>

NextBoot ==
  \/ \E s \in Shells : ShellStart(s)
  \/ \E s \in Shells : ShellTest(s)
  \/ \E s \in Shells : ShellTouch(s)
  \/ \E s \in Shells : ShellLaunch(s)
  \/ \E s \in Shells : ShellExit(s)

SpecBoot == InitBoot /\ [][NextBoot]_vars

\* C24 as stated: for any interleaving of shell startups in one container at
\* most one shell launches the CLI, and once a shell has finished its startup
\* one shell has launched it or is about to.
C24_CliStartedOnce ==
  /\ Cardinality(cli) <= 1
  /\ (\E s \in Shells : shell[s] = "done")
       => (cli # {} \/ \E s \in Shells : shell[s] = "launch")

----------------------------------------------------------------------------
(* initializeRepo: one call of the server action for a project whose stored
   githubRepo is empty; the init command runs as a command job through
   execCommand *)

\* the repoUrl createGithubRepo returns
RepoUrl == "https://github.com/u/p"

\* handleInitialize calls initializeRepo (the project row has no githubRepo)
RepoCalled == [pc |-> "auth", githubRepo |-> Null, before |-> Null, success |-> FALSE]

\* a return of initializeRepo with the given success
RepoReturn(r, success) == [r EXCEPT !.pc = "returned", !.success = success]

\* prisma.project.update({data: {githubRepo: repoResult.repoUrl}}) (lines 81-84)
RepoUpdate(r) == [r EXCEPT !.githubRepo = RepoUrl, !.pc = "init"]

\* what a step of initializeRepo outside the init command leaves alone
repoFrame ==
  <<tabs, activeTabId, now, shell, flagFile, cli, job, opt, stream, sess, nframes,
    hookVars, termVars>>

InitRepo ==
  /\ NoJobs
  /\ HookIdle
  /\ TermIdle
  /\ TabsIdle
  /\ BootIdle
  /\ repo = RepoCalled

\* await auth() (lines 65-69)
RepoAuth(ok) ==
  /\ repo.pc = "auth"
  /\ repo' = IF ok THEN [repo EXCEPT !.pc = "context"] ELSE RepoReturn(repo, FALSE)
  /\ UNCHANGED repoFrame

\* await getTtydContext(...) (line 72): it throws when the project, the
\* sandbox or its configuration is missing, and the catch returns
RepoContext(ok) ==
  /\ repo.pc = "context"
  /\ repo' = IF ok THEN [repo EXCEPT !.pc = "create"] ELSE RepoReturn(repo, FALSE)
  /\ UNCHANGED repoFrame

\* await createGithubRepo(project.name) (lines 75-78)
RepoCreate(ok) ==
  /\ repo.pc = "create"
  /\ repo' = IF ok THEN [repo EXCEPT !.pc = "save"] ELSE RepoReturn(repo, FALSE)
  /\ UNCHANGED repoFrame

\* the update of the project row (lines 81-84), then runInitCommand calls
\* execCommand, which starts the command job (lines 86 and 102-111)
RepoSave ==
  /\ repo.pc = "save"
  /\ repo' = RepoUpdate(repo)
  /\ job' = [job EXCEPT ![1] = [Started EXCEPT !.wrapped = Awaiting]]
  /\ UNCHANGED <<tabs, activeTabId, now, shell, flagFile, cli, opt, stream, sess,
                 nframes, hookVars, termVars>>

\* await runInitCommand(...) resumes: a thrown TtydExecError goes to the catch
\* (lines 95-99), a returned output to pushToGithub
RepoInitDone ==
  /\ repo.pc = "init"
  /\ job[1].wrapped.kind \in {"thrown", "returned"}
  /\ repo' = IF job[1].wrapped.kind = "thrown" THEN RepoReturn(repo, FALSE)
             ELSE [repo EXCEPT !.pc = "push"]
  /\ UNCHANGED repoFrame

\* await pushToGithub(projectId) (lines 89-94): success is true either way
RepoPush(ok) ==
  /\ repo.pc = "push"
  /\ repo' = RepoReturn(repo, TRUE)
  /\ UNCHANGED repoFrame

NextRepo ==
  \/ \E ok \in BOOLEAN : RepoAuth(ok)
  \/ \E ok \in BOOLEAN : RepoContext(ok)
  \/ \E ok \in BOOLEAN : RepoCreate(ok)
  \/ RepoSave
  \/ NextJob
  \/ \E j \in Jobs : AwaitDone(j)
  \/ RepoInitDone
  \/ \E ok \in BOOLEAN : RepoPush(ok)

SpecRepo == InitRepo /\ [][NextRepo]_vars

\* C30 as stated: whenever initializeRepo has returned success = false, the
\* stored githubRepo of the project is what it was before the call.
C30_FailureLeavesProject ==
  (repo.pc = "returned" /\ ~repo.success) => repo.githubRepo = repo.before

====
